---- MODULE Spec2Model ----
(***************************************************************************)
(* Per-process statistics probes of stats/bpf: stats.c (plain hash map,    *)
(* context switches only) and stats-v2.c (LRU hash map, context switches   *)
(* and page faults).  Each tracepoint invocation runs on one CPU; the map  *)
(* helpers are atomic, the counter increment through the returned pointer  *)
(* is a separate load and store.  bpf_map_lookup_elem and                  *)
(* bpf_map_update_elem follow the contract of the declared map type:       *)
(* a full BPF_MAP_TYPE_HASH refuses a new key, a full                      *)
(* BPF_MAP_TYPE_LRU_HASH evicts the least recently used one, and an        *)
(* element released by a replacement or an eviction can be handed out      *)
(* again while a running invocation still holds a pointer to it.           *)
(***************************************************************************)
EXTENDS Integers, Sequences, FiniteSets, TLC

\* ------------------------------------------------------------------ bounds

\* Stand-in for max_entries = 1024 of stats_map (stats.c:13, stats-v2.c:24).
max_entries == 2

\* Tracepoint invocations started in one behaviour when they may overlap;
\* one more when they are processed one at a time.
MaxEvents == 2

\* Hardware threads that may run a probe at the same time.
CPUs == {1, 2}

\* Process ids seen in events: one more than the map can hold.
Pids == 1 .. (max_entries + 1)

\* error_code values of page_fault_user events (bit 0 and one higher bit).
ErrorCodes == 0 .. 3

\* Preallocated map elements: max_entries plus one spare per CPU, so that a
\* BPF_ANY replacement has a new element before the old one is released.
Slots == 1 .. (max_entries + Cardinality(CPUs))

\* The null pointer; no element and no pid is 0.
NULL == 0

\* ------------------------------------------------------------------- state

VARIABLES
  prog,      \* which object file is loaded: "stats" or "stats-v2"
  active,    \* the CPUs on which the tracepoints fire
  tbl,       \* stats_map: pid -> element holding its value, or NULL
  val,       \* element -> struct stats_t (kept after release: stale pointers)
  lru,       \* LRU map only: the keys, least recently used first
  cpu,       \* per CPU: position and locals of the running invocation
  nevents,   \* invocations started so far
  touch,     \* history: the pids passed to get_or_init_stats, latest last
  appear_cs, \* history: pid -> appearances as prev_pid/next_pid in started events
  appear_pf, \* history: pid -> page-fault events started with pid current
  occurred   \* history: pid -> what the events that occurred add up to

vars == <<prog, active, tbl, val, lru, cpu, nevents, touch, appear_cs, appear_pf,
          occurred>>

\* struct stats_t zero = {};
zero == [context_switches |-> 0, major_faults |-> 0, minor_faults |-> 0]

\* Mutant: stats-v2 declares a plain hash map too.
MapTypeHashOnly == "BPF_MAP_TYPE_HASH"

\* Mutant: stats.c declares an LRU map too.
MapTypeLruOnly == "BPF_MAP_TYPE_LRU_HASH"

\* __uint(type, ...) of stats_map.
MapType == IF prog = "stats" THEN "BPF_MAP_TYPE_HASH" ELSE "BPF_MAP_TYPE_LRU_HASH"

\* The pids stats_map holds a record for.
Keys == {p \in Pids : tbl[p] # NULL}

\* The elements that hold no key's value.
FreeSlots == Slots \ {tbl[p] : p \in Keys}

\* stats_map holds a record for pid p.
Has(p) == tbl[p] # NULL

\* What user space reads for pid p: its record, or NULL when it has none.
Rec(p) == IF Has(p) THEN val[tbl[p]] ELSE NULL

\* A CPU that runs no probe.  Beyond the locals of the code, an invocation
\* remembers for which of its get_or_init_stats calls it called
\* bpf_map_update_elem (inserted), whether the map held a record for its
\* first pid when it started (had), that record's counters (pre), whether
\* another CPU called bpf_map_update_elem while it was running (raced), and
\* for which of its calls the map was full without the pid when it called
\* bpf_map_update_elem (refused).
Idle ==
  [pc |-> "idle", hook |-> "none", ctx |-> FALSE, prev_pid |-> 0, next_pid |-> 0,
   error_code |-> 0, arg |-> "none", pid |-> 0, stats |-> NULL,
   prev_stats |-> NULL, next_stats |-> NULL, tmp |-> 0, ret |-> -1,
   inserted |-> {}, had |-> FALSE, pre |-> zero, raced |-> FALSE,
   refused |-> {}]

\* Invocations that may still be started.
Budget == IF active = CPUs THEN MaxEvents ELSE MaxEvents + 1


\* ------------------------------------------------------------ map helpers

\* bpf_map_lookup_elem on the LRU map marks the element referenced.
LruTouch(order, p) ==
  IF \E i \in 1 .. Len(order) : order[i] = p
  THEN Append(SelectSeq(order, LAMBDA q : q # p), p)
  ELSE order

\* Mutant: the most recently used element is removed.
VictimNewest(order) == order[Len(order)]

\* The element an LRU insert into a full map removes.
Victim(order) == Head(order)

\* The map has no room for a key it does not hold yet.
Full(keys, p) == p \notin keys /\ Cardinality(keys) >= max_entries

\* Mutant: the hash map takes inserts beyond max_entries.
NeverRejected(p) == FALSE

\* BPF_MAP_TYPE_HASH: an insert of a new key into a full map fails (-E2BIG).
Rejected(p) == MapType = "BPF_MAP_TYPE_HASH" /\ Full(Keys, p)

\* Mutant: the LRU map makes no room for a new key.
NeverEvicted(p) == {}

\* BPF_MAP_TYPE_LRU_HASH: an insert of a new key into a full map evicts.
Evicted(p) ==
  IF MapType = "BPF_MAP_TYPE_LRU_HASH" /\ Full(Keys, p) THEN {Victim(lru)} ELSE {}

\* bpf_map_lookup_elem(&stats_map, &pid): the element's address, or NULL.
bpf_map_lookup_elem(p) ==
  /\ lru' = IF MapType = "BPF_MAP_TYPE_LRU_HASH" THEN LruTouch(lru, p) ELSE lru
  /\ UNCHANGED <<tbl, val>>

\* The free elements an insert may take: any that a running invocation still
\* holds a pointer to, or the first of the others (which nothing tells apart).
Reusable(free) ==
  LET held == {s \in free : \E c \in CPUs : /\ cpu[c].pc \in {"load", "store"}
                                               /\ cpu[c].stats = s}
      rest == free \ held
  IN held \cup {s \in rest : \A t \in rest : s <= t}

\* bpf_map_update_elem(&stats_map, &pid, &zero, BPF_ANY): a new element with
\* the value copied in takes the key's place; a replaced or evicted element
\* goes back to the free elements.
bpf_map_update_elem(p) ==
  IF Rejected(p)
  THEN UNCHANGED <<tbl, val, lru>>
  ELSE \E s \in Reusable(FreeSlots \cup {tbl[v] : v \in Evicted(p)}) :
         /\ tbl' = [q \in Pids |-> IF q = p THEN s
                                   ELSE IF q \in Evicted(p) THEN NULL ELSE tbl[q]]
         /\ val' = [val EXCEPT ![s] = zero]
         /\ lru' = IF MapType = "BPF_MAP_TYPE_LRU_HASH"
                   THEN Append(SelectSeq(lru, LAMBDA q : q \notin Evicted(p) \cup {p}), p)
                   ELSE lru

\* ------------------------------------------------------------------ hooks

\* Mutant: the payload is used without the NULL check.
EnterNoNullCheck(hook, ctx, prev, next, ec) ==
  [Idle EXCEPT !.pc = "lookup1", !.hook = hook, !.ctx = ctx,
               !.prev_pid = prev, !.next_pid = next, !.error_code = ec,
               !.arg = IF hook = "count_context_switches" THEN "prev" ELSE "cur",
               !.pid = prev]

\* if (!ctx) return 0; otherwise the first get_or_init_stats call is made.
Enter(hook, ctx, prev, next, ec) ==
  IF ~ctx
  THEN [Idle EXCEPT !.pc = "done", !.hook = hook, !.ret = 0]
  ELSE [Idle EXCEPT !.pc = "lookup1", !.hook = hook, !.ctx = TRUE,
                    !.prev_pid = prev, !.next_pid = next, !.error_code = ec,
                    !.arg = IF hook = "count_context_switches" THEN "prev" ELSE "cur",
                    !.pid = prev, !.had = Has(prev),
                    !.pre = IF Has(prev) THEN Rec(prev) ELSE zero]

\* Mutant: the two branches are swapped.
FaultFieldSwapped(ec) == IF ec % 2 = 1 THEN "major_faults" ELSE "minor_faults"

\* error_code bit 0: 0 = major fault, 1 = minor fault.
FaultField(ec) == IF ec % 2 = 1 THEN "minor_faults" ELSE "major_faults"

\* The field the invocation increments.
Field(r) ==
  IF r.hook = "count_context_switches" THEN "context_switches"
  ELSE FaultField(r.error_code)

\* x++ on a __u64 (no counter of a behaviour comes near 2^64).
Inc(v) == v + 1

\* Mutant: the hook returns after the prev_pid half.
NextPhaseNoNext(r) == [r EXCEPT !.pc = "done", !.tmp = 0, !.ret = 0]

\* After the prev_pid half the next_pid half follows; after next_pid, or in
\* count_page_faults, the hook returns 0.
NextPhase(r) ==
  IF r.arg = "prev"
  THEN [r EXCEPT !.pc = "lookup1", !.arg = "next", !.pid = r.next_pid, !.tmp = 0]
  ELSE [r EXCEPT !.pc = "done", !.tmp = 0, !.ret = 0]

\* Mutant: a next_pid that resolves to prev_pid's record is not counted again.
ResolvedOncePerRecord(r, s) ==
  LET q == [r EXCEPT !.stats = s,
                     !.prev_stats = IF r.arg = "prev" THEN s ELSE @,
                     !.next_stats = IF r.arg = "next" THEN s ELSE @]
  IN IF s = NULL \/ (r.arg = "next" /\ s = r.prev_stats)
     THEN NextPhase(q) ELSE [q EXCEPT !.pc = "load"]

\* Mutant: get_or_init_stats inserts again until the lookup finds a record.
ResolvedRetry(r, s) ==
  LET q == [r EXCEPT !.stats = s,
                     !.prev_stats = IF r.arg = "prev" THEN s ELSE @,
                     !.next_stats = IF r.arg = "next" THEN s ELSE @]
  IN IF s = NULL THEN [q EXCEPT !.pc = "update"] ELSE [q EXCEPT !.pc = "load"]

\* Mutant: the hook returns as soon as a get_or_init_stats call gives NULL.
ResolvedReturnOnNull(r, s) ==
  LET q == [r EXCEPT !.stats = s,
                     !.prev_stats = IF r.arg = "prev" THEN s ELSE @,
                     !.next_stats = IF r.arg = "next" THEN s ELSE @]
  IN IF s = NULL THEN [q EXCEPT !.pc = "done", !.tmp = 0, !.ret = 0]
     ELSE [q EXCEPT !.pc = "load"]

\* get_or_init_stats returns s to the hook: if (stats) stats->field++.
Resolved(r, s) ==
  LET q == [r EXCEPT !.stats = s,
                     !.prev_stats = IF r.arg = "prev" THEN s ELSE @,
                     !.next_stats = IF r.arg = "next" THEN s ELSE @]
  IN IF s = NULL THEN NextPhase(q) ELSE [q EXCEPT !.pc = "load"]

\* History: one more event of the kind counted in field f, for pid p.
Counted(h, p, f) == [h EXCEPT ![p][f] = @ + 1]

\* SEC("tracepoint/sched/sched_switch"): the tracepoint fires on CPU c.
count_context_switches(c) ==
  /\ cpu[c].pc = "idle"
  /\ nevents < Budget
  /\ \E ctx \in BOOLEAN, prev \in Pids, next \in Pids :
       LET r == Enter("count_context_switches", ctx, prev, next, 0) IN
       /\ cpu' = [cpu EXCEPT ![c] = r]
       /\ appear_cs' =
            IF ctx
            THEN [p \in Pids |-> appear_cs[p] + (IF p = prev THEN 1 ELSE 0)
                                              + (IF p = next THEN 1 ELSE 0)]
            ELSE appear_cs
       /\ occurred' =
            IF ctx
            THEN Counted(Counted(occurred, prev, "context_switches"),
                         next, "context_switches")
            ELSE occurred
  /\ nevents' = nevents + 1
  /\ UNCHANGED <<prog, active, tbl, val, lru, touch, appear_pf>>

\* SEC("tracepoint/exceptions/page_fault_user"), stats-v2 only; pid is
\* bpf_get_current_pid_tgid() >> 32.
count_page_faults(c) ==
  /\ prog = "stats-v2"
  /\ cpu[c].pc = "idle"
  /\ nevents < Budget
  /\ \E ctx \in BOOLEAN, pid \in Pids, ec \in ErrorCodes :
       LET r == Enter("count_page_faults", ctx, pid, 0, ec) IN
       /\ cpu' = [cpu EXCEPT ![c] = r]
       /\ appear_pf' = IF ctx THEN [appear_pf EXCEPT ![pid] = @ + 1] ELSE appear_pf
       /\ occurred' = IF ctx THEN Counted(occurred, pid, FaultField(ec)) ELSE occurred
  /\ nevents' = nevents + 1
  /\ UNCHANGED <<prog, active, tbl, val, lru, touch, appear_cs>>

\* stats.c has one program, for sched/sched_switch: a user page fault on CPU c
\* runs nothing and leaves stats_map as it is.
page_fault_user(c) ==
  /\ prog = "stats"
  /\ cpu[c].pc = "idle"
  /\ nevents < Budget
  /\ \E pid \in Pids, ec \in ErrorCodes :
       occurred' = Counted(occurred, pid, FaultField(ec))
  /\ nevents' = nevents + 1
  /\ UNCHANGED <<prog, active, tbl, val, lru, cpu, touch, appear_cs, appear_pf>>

\* Mutant: the record is inserted whether or not the lookup found one.
AfterLookup1AlwaysInsert(r, s) == [r EXCEPT !.stats = NULL, !.pc = "update"]

\* if (!stats) { update; lookup again } return stats;
AfterLookup1(r, s) ==
  IF s # NULL THEN Resolved(r, s) ELSE [r EXCEPT !.stats = NULL, !.pc = "update"]

\* get_or_init_stats(pid) is entered: stats = bpf_map_lookup_elem(...).
Lookup1(c) ==
  /\ cpu[c].pc = "lookup1"
  /\ bpf_map_lookup_elem(cpu[c].pid)
  /\ cpu' = [cpu EXCEPT ![c] = AfterLookup1(@, tbl[@.pid])]
  /\ touch' = Append(SelectSeq(touch, LAMBDA q : q # cpu[c].pid), cpu[c].pid)
  /\ UNCHANGED <<prog, active, nevents, appear_cs, appear_pf, occurred>>

\* bpf_map_update_elem(&stats_map, &pid, &zero, BPF_ANY); result ignored.
Update(c) ==
  /\ cpu[c].pc = "update"
  /\ bpf_map_update_elem(cpu[c].pid)
  /\ cpu' = [d \in CPUs |->
              IF d = c
              THEN [cpu[d] EXCEPT !.pc = "lookup2", !.inserted = @ \cup {cpu[c].arg},
                                  !.refused = IF Full(Keys, cpu[c].pid)
                                              THEN @ \cup {cpu[c].arg} ELSE @]
              ELSE IF cpu[d].pc \in {"idle", "done"} THEN cpu[d]
              ELSE [cpu[d] EXCEPT !.raced = TRUE]]
  /\ UNCHANGED <<prog, active, nevents, touch, appear_cs, appear_pf, occurred>>

\* Mutant: after the insert get_or_init_stats returns NULL without looking.
Lookup2ReturnsNull(c) ==
  /\ cpu[c].pc = "lookup2"
  /\ bpf_map_lookup_elem(cpu[c].pid)
  /\ cpu' = [cpu EXCEPT ![c] = Resolved(@, NULL)]
  /\ UNCHANGED <<prog, active, nevents, touch, appear_cs, appear_pf, occurred>>

\* stats = bpf_map_lookup_elem(...); if (!stats) return NULL; return stats;
Lookup2(c) ==
  /\ cpu[c].pc = "lookup2"
  /\ bpf_map_lookup_elem(cpu[c].pid)
  /\ cpu' = [cpu EXCEPT ![c] = Resolved(@, tbl[@.pid])]
  /\ UNCHANGED <<prog, active, nevents, touch, appear_cs, appear_pf, occurred>>

\* stats->field++ : the load of the field.
Load(c) ==
  /\ cpu[c].pc = "load"
  /\ cpu' = [cpu EXCEPT ![c].tmp = val[cpu[c].stats][Field(cpu[c])], ![c].pc = "store"]
  /\ UNCHANGED <<prog, active, tbl, val, lru, nevents, touch, appear_cs, appear_pf, occurred>>

\* Mutant: the increment is atomic (__sync_fetch_and_add): the store adds 1
\* to what the field holds.
StoreAtomic(c) ==
  /\ cpu[c].pc = "store"
  /\ val' = [val EXCEPT ![cpu[c].stats][Field(cpu[c])] = Inc(@)]
  /\ cpu' = [cpu EXCEPT ![c] = NextPhase(@)]
  /\ UNCHANGED <<prog, active, tbl, lru, nevents, touch, appear_cs, appear_pf, occurred>>

\* stats->field++ : the store of the incremented value.
Store(c) ==
  /\ cpu[c].pc = "store"
  /\ val' = [val EXCEPT ![cpu[c].stats][Field(cpu[c])] = Inc(cpu[c].tmp)]
  /\ cpu' = [cpu EXCEPT ![c] = NextPhase(@)]
  /\ UNCHANGED <<prog, active, tbl, lru, nevents, touch, appear_cs, appear_pf, occurred>>

\* return 0; the CPU is free for the next event.
Return(c) ==
  /\ cpu[c].pc = "done"
  /\ cpu' = [cpu EXCEPT ![c] = Idle]
  /\ UNCHANGED <<prog, active, tbl, val, lru, nevents, touch, appear_cs, appear_pf, occurred>>

\* ---------------------------------------------------------- specifications

InitMap ==
  /\ prog \in {"stats", "stats-v2"}
  /\ tbl = [p \in Pids |-> NULL]
  /\ val = [s \in Slots |-> zero]
  /\ lru = << >>
  /\ cpu = [c \in CPUs |-> Idle]
  /\ nevents = 0
  /\ touch = << >>
  /\ appear_cs = [p \in Pids |-> 0]
  /\ appear_pf = [p \in Pids |-> 0]
  /\ occurred = [p \in Pids |-> zero]

\* Events on every CPU: invocations overlap.
Init == InitMap /\ active = CPUs

\* Events on one CPU only: invocations are processed one at a time.
InitSeq == InitMap /\ active = {1}

Next ==
  \/ \E c \in active : count_context_switches(c)
  \/ \E c \in active : count_page_faults(c)
  \/ \E c \in active : page_fault_user(c)
  \/ \E c \in active : Lookup1(c)
  \/ \E c \in active : Update(c)
  \/ \E c \in active : Lookup2(c)
  \/ \E c \in active : Load(c)
  \/ \E c \in active : Store(c)
  \/ \E c \in active : Return(c)

Spec == Init /\ [][Next]_vars

SpecSeq == InitSeq /\ [][Next]_vars

\* The steps of the invocation running on CPU c.
Run(c) == Lookup1(c) \/ Update(c) \/ Lookup2(c) \/ Load(c) \/ Store(c)

\* Events on every CPU; CPU 1 keeps executing the program it runs, CPU 2 may
\* stop at any instruction for any time (a probe is neither preempted for
\* good nor put to sleep on the CPU it runs on).
SpecFair == Init /\ [][Next]_vars /\ WF_vars(Run(1))

\* No invocation is between its first and its last step.
Quiescent == \A c \in CPUs : cpu[c].pc \in {"idle", "done"}

\* The pids some started event named.
Named == {p \in Pids : appear_cs[p] + appear_pf[p] > 0}

\* A get_or_init_stats call of the invocation on CPU c returned NULL.
Dropped(c) ==
  LET r == cpu[c] IN
  /\ r.ctx
  /\ \/ r.hook = "count_context_switches" /\ r.arg = "next" /\ r.prev_stats = NULL
     \/ r.hook = "count_context_switches" /\ r.pc = "done" /\ r.next_stats = NULL
     \/ r.hook = "count_page_faults" /\ r.pc = "done" /\ r.stats = NULL

\* Where pid p stands in the history of get_or_init_stats calls.
Pos(p) == CHOOSE i \in 1 .. Len(touch) : touch[i] = p

\* The key whose last get_or_init_stats call is the oldest.
Oldest == CHOOSE p \in Keys : \A q \in Keys : Pos(p) <= Pos(q)

\* ------------------------------------------------------------------ claims

\* C1 as stated: after events processed one at a time, the context_switches
\* value recorded for a pid equals the number of its appearances as prev_pid
\* or next_pid (violated: an LRU eviction discards the earlier appearances).
C1_RecordedEqualsAppearances ==
  Quiescent =>
    \A p \in Pids : Has(p) => Rec(p).context_switches = appear_cs[p]

\* C1 amended: after events processed one at a time that named at most
\* max_entries distinct pids, every pid that appeared has a record whose
\* context_switches equals the number of its appearances; with more pids the
\* equality still holds for every record of the plain hash map.
C1_CountsExact ==
  Quiescent =>
    /\ Cardinality(Named) <= max_entries =>
          \A p \in Pids : appear_cs[p] > 0 =>
             Has(p) /\ Rec(p).context_switches = appear_cs[p]
    /\ prog = "stats" =>
          \A p \in Pids : Has(p) => Rec(p).context_switches = appear_cs[p]

\* C1 witness: three events, one pid counted four times, one of them a
\* self-switch.
C1_Witness ==
  /\ Quiescent
  /\ nevents = 3
  /\ cpu[1].pc = "done" /\ cpu[1].ctx /\ cpu[1].prev_pid = cpu[1].next_pid
  /\ \E p \in Pids : /\ appear_cs[p] = 4
                      /\ Has(p)
                      /\ Rec(p).context_switches = 4

\* C2: a page-fault event with a payload whose record is resolved adds exactly
\* 1 to minor_faults and leaves major_faults alone when error_code bit 0 is 1,
\* and adds exactly 1 to major_faults and leaves minor_faults alone when it
\* is 0 (events processed one at a time).
C2_OneFaultCounter ==
  \A c \in active :
    LET r == cpu[c] IN
    (r.pc = "done" /\ r.hook = "count_page_faults" /\ r.ctx /\ r.stats # NULL) =>
      /\ tbl[r.pid] = r.stats
      /\ IF r.error_code % 2 = 1
         THEN /\ Rec(r.pid).minor_faults = r.pre.minor_faults + 1
              /\ Rec(r.pid).major_faults = r.pre.major_faults
         ELSE /\ Rec(r.pid).major_faults = r.pre.major_faults + 1
              /\ Rec(r.pid).minor_faults = r.pre.minor_faults

\* C2 witness: a fault with error_code 2 (bit 0 clear) on a pid that had one
\* minor fault before.
C2_Witness ==
  /\ cpu[1].pc = "done" /\ cpu[1].hook = "count_page_faults" /\ cpu[1].ctx
  /\ cpu[1].error_code = 2
  /\ cpu[1].had /\ cpu[1].pre.minor_faults = 1 /\ cpu[1].pre.major_faults = 0
  /\ Has(cpu[1].pid)
  /\ Rec(cpu[1].pid).minor_faults = 1 /\ Rec(cpu[1].pid).major_faults = 1

\* C3: plain hash map, events processed one at a time: when the map holds
\* max_entries pids and get_or_init_stats is called for another one, no step
\* of the call changes the map (no record created, every record and counter
\* as before) and the call returns NULL, so nothing is incremented.
C3_FullHashDropsNewPid ==
  [][\A c \in active :
       LET r == cpu[c] IN
       (/\ prog = "stats"
        /\ r.pc \in {"lookup1", "update", "lookup2"}
        /\ Full(Keys, r.pid)
        /\ cpu'[c] # r) =>
          /\ UNCHANGED <<tbl, val>>
          /\ r.pc = "lookup2" =>
                /\ cpu'[c].stats = NULL
                /\ cpu'[c].pc \notin {"load", "store"}
                /\ r.arg = "prev" => cpu'[c].prev_stats = NULL
                /\ r.arg = "next" => cpu'[c].next_stats = NULL
    ]_vars

\* C3 witness: the full hash map after an event whose next_pid was refused;
\* the pids it holds have their counts.
C3_Witness ==
  /\ prog = "stats"
  /\ cpu[1].pc = "done" /\ cpu[1].ctx
  /\ "next" \in cpu[1].inserted /\ cpu[1].next_stats = NULL
  /\ ~Has(cpu[1].next_pid)
  /\ Cardinality(Keys) = max_entries
  /\ \A q \in Keys : Rec(q).context_switches = appear_cs[q] /\ appear_cs[q] >= 1

C5_LruNeverDrops ==
  prog = "stats-v2" => \A c \in CPUs : ~Dropped(c)

\* C5 amended: with the LRU map a get_or_init_stats call returns NULL only
\* in an invocation during which another CPU called bpf_map_update_elem; an
\* invocation no insert of another CPU overlaps never drops its event.
C5_LruDropsOnlyWhenRaced ==
  prog = "stats-v2" => \A c \in CPUs : Dropped(c) => cpu[c].raced

\* C5 witness: an invocation no other insert overlapped has inserted into the
\* full LRU map and got its records.
C5_Witness ==
  /\ prog = "stats-v2"
  /\ \E c \in CPUs :
       /\ cpu[c].pc = "done" /\ cpu[c].ctx /\ ~cpu[c].raced
       /\ cpu[c].inserted # {}
       /\ ~Dropped(c)
  /\ Cardinality(Keys) = max_entries
  /\ \E q \in Named : ~Has(q)

\* C6 as stated: whatever the interleaving, no step that leaves a pid's
\* record in the map makes one of its counters smaller (violated: a BPF_ANY
\* insert replaces a counted record by a zero one).
C6_CountersMonotonic ==
  [][\A p \in Pids :
       (Has(p) /\ Has(p)') =>
          /\ Rec(p)'.context_switches >= Rec(p).context_switches
          /\ Rec(p)'.major_faults >= Rec(p).major_faults
          /\ Rec(p)'.minor_faults >= Rec(p).minor_faults
    ]_vars

\* C7 as stated: when two overlapping invocations both miss the same
\* prev_pid on their first lookup and both insert a zero record, the record
\* holds both increments once both have returned (violated: the second
\* insert replaces the record the first invocation counted in).  The two
\* events name the same two pids, so nothing is evicted or refused, and the
\* two increments went to different elements, so neither overwrote the
\* other's store.
C7_InsertRaceKeepsBoth ==
  (/\ nevents = 2
   /\ \A c \in CPUs :
        /\ cpu[c].pc = "done" /\ cpu[c].ctx
        /\ cpu[c].hook = "count_context_switches"
        /\ cpu[c].prev_pid = cpu[1].prev_pid
        /\ cpu[c].next_pid = cpu[1].next_pid
        /\ "prev" \in cpu[c].inserted
        /\ cpu[c].prev_stats # NULL
   /\ cpu[1].prev_pid # cpu[1].next_pid
   /\ cpu[1].prev_stats # cpu[2].prev_stats) =>
     /\ Has(cpu[1].prev_pid)
     /\ Rec(cpu[1].prev_pid).context_switches = 2

\* C8: two get_or_init_stats calls for the same pid in immediate succession
\* (a self-switch, events processed one at a time): when the first returned
\* a record, the second returns the same element without calling
\* bpf_map_update_elem, it is the pid's record, and the first call's
\* increment is read through it.
C8_SecondCallSameRecord ==
  \A c \in active :
    LET r == cpu[c] IN
    (/\ r.ctx /\ r.hook = "count_context_switches"
     /\ r.prev_pid = r.next_pid
     /\ r.arg = "next" /\ r.pc \in {"load", "store", "done"}
     /\ r.prev_stats # NULL) =>
       /\ r.next_stats = r.prev_stats
       /\ "next" \notin r.inserted
       /\ tbl[r.next_pid] = r.next_stats
       /\ r.pc = "load" =>
             val[r.next_stats].context_switches = r.pre.context_switches + 1

\* C8 witness: the second call of a self-switch has returned the record the
\* first call created and incremented.
C8_Witness ==
  /\ cpu[1].ctx /\ cpu[1].hook = "count_context_switches"
  /\ cpu[1].prev_pid = cpu[1].next_pid
  /\ cpu[1].arg = "next" /\ cpu[1].pc = "load"
  /\ cpu[1].inserted = {"prev"}
  /\ cpu[1].next_stats = cpu[1].prev_stats /\ cpu[1].prev_stats # NULL
  /\ val[cpu[1].next_stats].context_switches = 1

\* C9: a hook entered without a payload returns 0 at once and its steps
\* leave the map as it is: no record created, no counter changed, nothing
\* evicted, no LRU reference taken.
C9_NullPayloadNoEffect ==
  [][\A c \in CPUs :
       /\ (cpu[c].pc = "idle" /\ cpu'[c].pc # "idle" /\ ~cpu'[c].ctx) =>
             /\ cpu'[c].pc = "done"
             /\ cpu'[c].ret = 0
             /\ UNCHANGED <<tbl, val, lru>>
       /\ (cpu[c].pc # "idle" /\ ~cpu[c].ctx /\ cpu'[c] # cpu[c]) =>
             /\ cpu'[c].pc = "idle"
             /\ UNCHANGED <<tbl, val, lru>>
    ]_vars

\* C9 witness: count_page_faults has returned 0 for an absent payload on the
\* full LRU map.
C9_Witness ==
  /\ prog = "stats-v2"
  /\ Cardinality(Keys) = max_entries
  /\ \E c \in CPUs : /\ cpu[c].pc = "done" /\ ~cpu[c].ctx /\ cpu[c].ret = 0
                      /\ cpu[c].hook = "count_page_faults"

\* C10: a context-switch event with prev_pid = next_pid, processed alone
\* with both get_or_init_stats calls returning a record, adds exactly 2 to
\* that pid's context_switches.
C10_SelfSwitchCountsTwice ==
  \A c \in active :
    LET r == cpu[c] IN
    (/\ r.pc = "done" /\ r.ctx /\ r.hook = "count_context_switches"
     /\ r.prev_pid = r.next_pid
     /\ r.prev_stats # NULL /\ r.next_stats # NULL) =>
       /\ Has(r.prev_pid)
       /\ Rec(r.prev_pid).context_switches = r.pre.context_switches + 2

\* C10 witness: a self-switch of a pid that had a count of 1 leaves it at 3.
C10_Witness ==
  /\ cpu[1].pc = "done" /\ cpu[1].ctx /\ cpu[1].hook = "count_context_switches"
  /\ cpu[1].prev_pid = cpu[1].next_pid
  /\ cpu[1].had /\ cpu[1].pre.context_switches = 1
  /\ Has(cpu[1].prev_pid)
  /\ Rec(cpu[1].prev_pid).context_switches = 3

\* C11: in every reachable state the table holds a record only for a pid that
\* an already started invocation named (as prev_pid, next_pid or current pid
\* of a page fault); a pid no event named has no record.
C11_RecordsOnlyForNamedPids == Keys \subseteq Named

\* A record exists for a named pid while another pid, named by no event, has
\* none.
C11_Witness ==
  /\ \E p \in Named : Has(p)
  /\ \E q \in Pids \ Named : ~Has(q)
  /\ \E c \in CPUs : cpu[c].pc = "done" /\ cpu[c].inserted # {}

\* C12: undercount only.  In every reachable state, for either map type, the
\* context_switches readable for a pid is at most the number of its
\* appearances as prev_pid or next_pid in started context-switch events, and
\* its major_faults + minor_faults is at most the number of started page-fault
\* events with the pid current.
C12_UndercountOnly ==
  \A p \in Pids :
    Has(p) =>
      /\ Rec(p).context_switches <= appear_cs[p]
      /\ Rec(p).major_faults + Rec(p).minor_faults <= appear_pf[p]

\* The pids the events that occurred named.
Observed == {p \in Pids : occurred[p] # zero}

\* C13: stats.c and stats-v2.c differ in eviction policy only.  After any
\* stream of context-switch and page-fault events processed one at a time
\* that names at most max_entries distinct pids, the table is the one the
\* stream determines, whichever program is loaded: a record for every pid
\* named, with one count per appearance in a context switch and one per page
\* fault of each kind.
C13_VariantsSameTable ==
  (Quiescent /\ Cardinality(Observed) <= max_entries) =>
     \A p \in Pids :
        /\ Has(p) <=> p \in Observed
        /\ Has(p) => Rec(p) = occurred[p]

\* C14: in every reachable state, for either map type and any interleaving,
\* the number of pids with a record in the table is at most max_entries.
C14_AtMostMaxEntries == Cardinality(Keys) <= max_entries

\* The table is full, the events named more pids than it holds, and an
\* invocation that inserted for its next_pid has returned.
C14_Witness ==
  /\ Cardinality(Keys) = max_entries
  /\ Cardinality(Named) > max_entries
  /\ \E c \in CPUs : cpu[c].pc = "done" /\ "next" \in cpu[c].inserted

\* C15: plain hash map (stats.c).  No step removes a pid from the table, so
\* the set of pids present only grows; and once the table holds max_entries
\* pids, a pid that is absent is absent after every later step, and no
\* invocation gets to increment a counter for a pid that is absent.
C15_HashKeysOnlyGrow ==
  [][prog = "stats" =>
       /\ Keys \subseteq Keys'
       /\ \A c \in CPUs : cpu[c].pc \in {"load", "store"} => Has(cpu[c].pid)
       /\ \A p \in Pids :
            (Cardinality(Keys) >= max_entries /\ ~Has(p)) => ~Has(p)']_vars

\* The table of stats.c is full and an invocation naming an absent pid has
\* run to its return, with both its calls for that pid answered NULL.
C15_Witness ==
  /\ prog = "stats"
  /\ Cardinality(Keys) = max_entries
  /\ \E c \in CPUs :
       /\ cpu[c].pc = "done" /\ cpu[c].ctx
       /\ cpu[c].prev_pid = cpu[c].next_pid
       /\ ~Has(cpu[c].prev_pid)
       /\ cpu[c].inserted = {"prev", "next"}

\* C16: plain hash map (stats.c), any interleaving.  get_or_init_stats(pid)
\* returns NULL only if the table held max_entries pids, none of them pid,
\* when the call attempted its insert; a call whose insert found a free
\* element or the pid present returns the pid's record, and so does a call
\* whose first lookup finds the pid.
C16_HashNullOnlyWhenFull ==
  [][\A c \in CPUs :
       LET r == cpu[c]
           q == cpu'[c]
       IN (prog = "stats" /\ q.pc # r.pc) =>
            /\ (r.pc = "lookup2" /\ q.pc # "load") => r.arg \in r.refused
            /\ (r.pc = "lookup2" /\ r.arg \notin r.refused) =>
                  q.pc = "load" /\ q.stats # NULL /\ q.stats = tbl[r.pid]
            /\ (r.pc = "lookup1" /\ Has(r.pid)) =>
                  q.pc = "load" /\ q.stats = tbl[r.pid]
    ]_vars

\* While two invocations overlap on stats.c, one has returned with NULL for
\* its prev_pid, refused by the full table, and a record for its next_pid,
\* which the table held.
C16_Witness ==
  /\ prog = "stats"
  /\ \E c \in CPUs, d \in CPUs :
       /\ c # d
       /\ cpu[d].pc \notin {"idle", "done"}
       /\ cpu[c].pc = "done" /\ cpu[c].ctx
       /\ cpu[c].prev_stats = NULL /\ "prev" \in cpu[c].refused
       /\ cpu[c].next_stats # NULL /\ cpu[c].inserted = {"prev"}

\* C17: the two pids of a context-switch event are processed independently.
\* An invocation that got NULL for prev_pid still calls get_or_init_stats for
\* next_pid and, given a record, adds 1 to its context_switches; and the
\* increment for prev_pid is applied although next_pid is then answered NULL
\* (events processed one at a time).
C17_BothPidsIndependent ==
  [][LET r == cpu[1]
         q == cpu'[1]
     IN (r.hook = "count_context_switches" /\ r.ctx /\ q.pc # r.pc) =>
          \* NULL for prev_pid: the next_pid half starts
          /\ (r.arg = "prev" /\ r.pc = "lookup2" /\ tbl[r.pid] = NULL) =>
                q.pc = "lookup1" /\ q.arg = "next" /\ q.pid = r.next_pid
          \* the increment of prev_pid: applied, and the next_pid half starts
          /\ (r.arg = "prev" /\ r.pc = "store") =>
                /\ val'[r.stats].context_switches = val[r.stats].context_switches + 1
                /\ q.pc = "lookup1" /\ q.arg = "next" /\ q.pid = r.next_pid
          \* the increment of next_pid: applied whatever prev_pid got
          /\ (r.arg = "next" /\ r.pc = "store") =>
                /\ r.stats = tbl[r.next_pid]
                /\ val'[r.stats].context_switches = val[r.stats].context_switches + 1
          \* NULL for next_pid: prev_pid keeps the count it was given
          /\ (r.arg = "next" /\ r.pc = "lookup2" /\ tbl[r.pid] = NULL
              /\ r.prev_stats # NULL) =>
                /\ UNCHANGED val
                /\ Has(r.prev_pid) /\ tbl[r.prev_pid] = r.prev_stats
                /\ Rec(r.prev_pid).context_switches =
                     (IF r.had THEN r.pre.context_switches ELSE 0) + 1
    ]_vars

\* An invocation on the full table of stats.c has returned: prev_pid was
\* refused and got NULL, next_pid had a record and has been counted again.
C17_Witness ==
  /\ prog = "stats"
  /\ cpu[1].pc = "done" /\ cpu[1].ctx
  /\ cpu[1].prev_stats = NULL /\ "prev" \in cpu[1].refused
  /\ cpu[1].next_stats # NULL
  /\ Has(cpu[1].next_pid)
  /\ Rec(cpu[1].next_pid).context_switches = appear_cs[cpu[1].next_pid]
  /\ appear_cs[cpu[1].next_pid] >= 2

\* C18: the increment is a plain read-modify-write.  Every store writes the
\* value the invocation loaded plus one, whatever the field holds by then; a
\* store made after another invocation's increment of the same field of the
\* same record leaves the field as it is, so the two increments make it grow
\* by 1, not 2.
C18_PlainReadModifyWrite ==
  [][\A c \in CPUs :
       LET r == cpu[c] IN
       (r.pc = "store" /\ cpu'[c].pc # "store") =>
          /\ val'[r.stats][Field(r)] = r.tmp + 1
          /\ val[r.stats][Field(r)] = r.tmp + 1 => val' = val
    ]_vars

\* The lost update: two overlapping sched_switch events, both from pid p to
\* pid p, have returned.  One insert was made, by the first call of one of
\* them; the other three calls found p's record, nothing was evicted or
\* replaced, and the four increments of context_switches left it at 3.
C18_Witness ==
  \E p \in Pids, c \in CPUs, d \in CPUs :
    /\ c # d
    /\ \A e \in {c, d} : /\ cpu[e].pc = "done" /\ cpu[e].ctx
                         /\ cpu[e].hook = "count_context_switches"
                         /\ cpu[e].prev_pid = p /\ cpu[e].next_pid = p
                         /\ cpu[e].prev_stats = tbl[p] /\ cpu[e].next_stats = tbl[p]
    /\ cpu[c].inserted = {"prev"} /\ cpu[d].inserted = {}
    /\ Has(p)
    /\ appear_cs[p] = 4
    /\ Rec(p).context_switches = 3

\* C19: frame of a hook invocation.  A step of count_context_switches changes
\* no record's major_faults or minor_faults, a step of count_page_faults
\* changes no record's context_switches, and a step of either changes no
\* counter of the record of a pid other than prev_pid and next_pid, or the
\* current pid, of its event: such a record stays as it was or, in the LRU
\* map only, is evicted.
C19_Frame ==
  [][\A c \in CPUs :
       LET r == cpu[c] IN
       (r.pc \notin {"idle", "done"} /\ cpu'[c].pc # r.pc) =>
          \A p \in Pids :
            /\ (Has(p) /\ Has(p)' /\ r.hook = "count_context_switches") =>
                  /\ Rec(p)'.major_faults = Rec(p).major_faults
                  /\ Rec(p)'.minor_faults = Rec(p).minor_faults
            /\ (Has(p) /\ Has(p)' /\ r.hook = "count_page_faults") =>
                  Rec(p)'.context_switches = Rec(p).context_switches
            /\ (Has(p) /\ p \notin {r.prev_pid, r.next_pid}) =>
                  \/ Has(p)' /\ Rec(p)' = Rec(p)
                  \/ ~Has(p)' /\ MapType = "BPF_MAP_TYPE_LRU_HASH"
    ]_vars

\* C20: every hook invocation terminates without waiting for another one.
\* An invocation started on a CPU that keeps executing it reaches its return,
\* however the invocations on the other CPU are interleaved with it and even
\* if they stop for good; it has no loop, lock or retry.
C20_InvocationTerminates ==
  (cpu[1].pc \notin {"idle", "done"}) ~> (cpu[1].pc = "done")

\* CPU 1 has returned from an invocation that inserted for both its pids,
\* while the invocation on CPU 2, started before it, stands before its
\* insert.
C20_Witness ==
  /\ cpu[1].pc = "done" /\ cpu[1].ctx
  /\ cpu[1].inserted = {"prev", "next"}
  /\ cpu[2].pc = "update" /\ cpu[2].raced

====
